---------------------------- MODULE Spec2Model ----------------------------
(***************************************************************************)
(* The ingestion / monitoring / retrain pipeline of the python exporter.   *)
(*                                                                         *)
(* The repository holds two programs that implement the pipeline:          *)
(*   main.py      a FastAPI service: a background thread runs              *)
(*                ingestion_and_retrain_loop while request threads run     *)
(*                predict against the same global `model`;                 *)
(*   ml_model.py  a stand-alone bounded trainer: ingestion_loop runs       *)
(*                TRAIN_CYCLES cycles, saving the model periodically.      *)
(* A behaviour runs one of the two (variable prog).  Globals that carry    *)
(* the same name in both files (model and the Prometheus metrics) share a  *)
(* variable; the others keep the name of their file.                       *)
(*                                                                         *)
(* Numbers: accuracies are in percent (0.8 is 80); feature values are      *)
(* integers; means and variances are exact fractions <<num, den>>.         *)
(***************************************************************************)
EXTENDS Integers, Sequences, FiniteSets, TLC

VARIABLES
    prog,                        \* "main" or "ml": which program this run is
    pc,                          \* position of the ingestion loop
    resp,                        \* the response the latest fetch received
    events,                      \* calls made by the latest loop iteration
    fetches,                     \* number of fetches issued so far
    model,                       \* the global classifier object
    X_history, y_history,        \* main.py:33
    previous_features_count,     \* main.py:34
    X, y,                        \* ml_model.py:35
    retrain_count,               \* ml_model.py:36
    current_cycle,               \* ml_model.py:37
    previous_features,           \* ml_model.py:38
    feature_stats,               \* ml_model.py:39
    model_accuracy,              \* gauge
    records_processed_total,     \* counter
    retrain_count_total,         \* counter (main.py) / gauge (ml_model.py)
    distribution_drift_detected, \* gauge
    feature_added,               \* gauge
    feature_removed,             \* gauge
    datalake_unavailable,        \* counter
    response_delay_seconds,      \* gauge
    predict_out                  \* what the latest /predict call returned

mainvars == <<X_history, y_history, previous_features_count>>
mlvars == <<X, y, retrain_count, current_cycle, previous_features, feature_stats>>
metrics == <<model_accuracy, records_processed_total, retrain_count_total,
             distribution_drift_detected, feature_added, feature_removed,
             datalake_unavailable, response_delay_seconds>>
vars == <<prog, pc, resp, events, fetches, model, mainvars, mlvars, metrics,
          predict_out>>

----------------------------------------------------------------------------
(* Bounds of the model *)

\* fetches a run may issue
MaxFetches == 3

\* fetches of a whole-budget run that may end without a completed cycle
MaxIdleFetches == 2

----------------------------------------------------------------------------
(* Program constants *)

RETRAIN_THRESHOLD == 80
MIN_SAMPLES_TO_TRAIN == 4
TRAIN_CYCLES == 50
SAVE_INTERVAL == 5
\* main.py:99  if len(X_history) > 20
MAIN_MIN_HISTORY == 20
\* time.sleep arguments
MAIN_COOLDOWN == 30
MAIN_POLL == 20
ML_POLL == 10

----------------------------------------------------------------------------
(* Records, batches and responses of the data lake *)

\* A JSON record; hasF / hasL say whether the keys 'features' / 'label' exist.
Rec(f, l) == [hasF |-> TRUE, features |-> f, hasL |-> TRUE, label |-> l]
NoLabel(f) == [hasF |-> TRUE, features |-> f, hasL |-> FALSE, label |-> 0]
NoFeatures(l) == [hasF |-> FALSE, features |-> <<>>, hasL |-> TRUE, label |-> l]

Rep(n, r) == [i \in 1..n |-> r]

\* The batches the data lake delivers in the model.
BatchEmpty == <<>>
BatchA == <<Rec(<<1>>, 0)>>
BatchB == <<Rec(<<1, 1>>, 0), Rec(<<1, 1>>, 1)>>
BatchC == <<Rec(<<1, 2>>, 0), Rec(<<3, 2>>, 1)>>
BatchNoLabel == <<Rec(<<1>>, 0), NoLabel(<<1>>), Rec(<<1>>, 1)>>
BatchNoFeatures == <<Rec(<<1>>, 0), NoFeatures(1)>>
BatchRagged == <<Rec(<<1, 1>>, 0), Rec(<<1>>, 1)>>
BatchWidth0 == <<Rec(<<>>, 0)>>
Batch10 == Rep(10, Rec(<<1, 1>>, 0))
Batch11 == Rep(11, Rec(<<1, 1>>, 1))

Batches == {BatchEmpty, BatchA, BatchB, BatchC, BatchNoLabel, BatchNoFeatures,
            BatchRagged, BatchWidth0, Batch10, Batch11}

\* What requests.get(...) can produce: an exception, a 503, or a response whose
\* body is not JSON, a JSON list, a JSON object with or without a `records`
\* field, or a JSON number.
Response(k, b) == [kind |-> k, recs |-> b]
Responses ==
    {Response(k, <<>>) : k \in {"neterror", "503", "badjson", "object_other", "number"}}
    \cup {Response("list", b) : b \in Batches}
    \cup {Response("object", b) : b \in {BatchEmpty, BatchB}}

\* Elapsed request times (seconds) the latency gauge can be set to.
Delays == {1, 2}


\* Inputs of /predict: an unparsable string, or a vector of w numbers.
PredictInputs == {[parses |-> FALSE, w |-> 0]} \cup {[parses |-> TRUE, w |-> n] : n \in 2..3}

----------------------------------------------------------------------------
(* Calls the loop makes to its collaborators, in order *)

Ev(op, arg) == [op |-> op, arg |-> arg]
Alert(kind) == Ev(kind, 0)
Sleep(seconds) == Ev("sleep", seconds)
Has(op) == \E i \in DOMAIN events : events[i].op = op
Count(op) == Cardinality({i \in DOMAIN events : events[i].op = op})

----------------------------------------------------------------------------
(* The classifier object *)

\* fit: how the trees it holds were produced; hist: the history size of that
\* fit; w: n_features_in_; busy: a fit() call is under way on the object.
Model(fit, hist, w, busy) == [fit |-> fit, hist |-> hist, w |-> w, busy |-> busy]

\* main.py:31 joblib.load("model_cycle_20.joblib"); two features, as the
\* example query of predict
LoadedModel == Model("loaded", 0, 2, FALSE)
\* ml_model.py:34 RandomForestClassifier()
UnfittedModel == Model("unfitted", 0, 0, FALSE)

Widths(h) == {Len(h[i]) : i \in DOMAIN h}
CountWidth(h, w) == Cardinality({i \in DOMAIN h : Len(h[i]) = w})

\* sklearn train_test_split(test_size=0.2): n_test = ceil(0.2 n), n_train = n - n_test
MainTestSize(n) == (n + 4) \div 5
\* train_test_split(test_size=0.3): n_test = ceil(0.3 n)
MlTestSize(n) == (3 * n + 9) \div 10

\* accuracy_score(y_test, model.predict(X_test)) in whole percent, rounded
\* down (acc < 0.8 iff the percentage is below 80): k correct out of n_test.
\* A forest fitted on a history with one label predicts that label, and
\* scores 1.0; otherwise the score depends on the random split and forest,
\* and the model takes k just below the threshold, just at or above it, or
\* n_test.
Scores(yh, n_test) ==
    IF Cardinality({yh[i] : i \in DOMAIN yh}) <= 1 THEN {100}
    ELSE {(100 * k) \div n_test :
             k \in {(4 * n_test + 4) \div 5 - 1, (4 * n_test + 4) \div 5, n_test}}

\* check_array in fit(): a rectangular array with at least one column
Fittable(h) == Cardinality(Widths(h)) = 1 /\ Widths(h) # {0}

----------------------------------------------------------------------------
(* main.py ingestion_and_retrain_loop *)

RECURSIVE MainAppend(_, _, _, _)
\* main.py:83-85; raised is TRUE when r['features'] or r['label'] raised KeyError
MainAppend(records, i, Xh, yh) ==
    IF i > Len(records) THEN [Xh |-> Xh, yh |-> yh, raised |-> FALSE]
    ELSE IF ~records[i].hasF THEN [Xh |-> Xh, yh |-> yh, raised |-> TRUE]
    ELSE IF ~records[i].hasL
         THEN [Xh |-> Append(Xh, records[i].features), yh |-> yh, raised |-> TRUE]
    ELSE MainAppend(records, i + 1, Append(Xh, records[i].features),
                    Append(yh, records[i].label))

\* main.py:89-95: the events of the feature-change comparison
MainFeatureEvents(current_feat_count, previous) ==
    IF previous = 0 THEN <<>>
    ELSE IF current_feat_count > previous
         THEN <<Ev("set_feature_added", 1), Alert("alert_feature_added")>>
    ELSE IF current_feat_count < previous
         THEN <<Ev("set_feature_removed", 1), Alert("alert_feature_removed")>>
    ELSE <<>>

\* a baseline that is only ever raised
MainNextBaseline_KeepsLargest(current_feat_count, previous) ==
    IF current_feat_count > previous THEN current_feat_count ELSE previous

\* main.py:96: the baseline the next cycle compares with
MainNextBaseline(current_feat_count, previous) == current_feat_count

\* main.py:99 the retrain guard
MainShouldTrain(Xh) == Len(Xh) > MAIN_MIN_HISTORY

\* main.py:100-101: the widths w for which some random train partition is a
\* rectangular array of width w, so that fit(X_train) passes validation
MainTrainWidths(Xh) ==
    {w \in Widths(Xh) \ {0} : CountWidth(Xh, w) >= Len(Xh) - MainTestSize(Len(Xh))}

\* main.py:100-101: some random train partition is ragged (fit raises)
MainTrainCanFail(Xh) == ~Fittable(Xh)

\* the loop goes back to the top through time.sleep(20) at main.py:114
MainBackToTop(evs) ==
    /\ events' = Append(evs, Sleep(MAIN_POLL))
    /\ pc' = "fetch"

\* main.py:67-68 with requests.get raising (connection error, timeout)
MainFetchNetError ==
    /\ prog = "main" /\ pc = "fetch" /\ fetches < MaxFetches
    /\ resp' = Response("neterror", <<>>)
    /\ fetches' = fetches + 1
    /\ MainBackToTop(<<>>)
    /\ UNCHANGED <<prog, model, mainvars, mlvars, metrics, predict_out>>

\* main.py:71-75
MainFetch503 ==
    /\ prog = "main" /\ pc = "fetch" /\ fetches < MaxFetches
    /\ resp' = Response("503", <<>>)
    /\ fetches' = fetches + 1
    /\ \E d \in Delays : response_delay_seconds' = d
    /\ datalake_unavailable' = datalake_unavailable + 1
    /\ events' = <<Alert("alert_503"), Sleep(MAIN_COOLDOWN)>>
    /\ pc' = "fetch"
    /\ UNCHANGED <<prog, model, mainvars, mlvars, predict_out, model_accuracy,
                   records_processed_total, retrain_count_total,
                   distribution_drift_detected, feature_added, feature_removed>>

\* the responses whose body is not a non-empty list of records
NoBatchResponses ==
    {r \in Responses : r.kind \in {"badjson", "object_other", "number", "object"}}
    \cup {Response("list", <<>>)}

\* main.py:77-85 with a body that is not a non-empty list of records:
\* resp.json() raises; or the value is falsy (continue, no sleep); or it is a
\* number (len() raises); or it is an object, which is truthy, has one key,
\* and whose key is then indexed as a record (r['features'] raises on a str)
MainFetchNoBatch ==
    /\ prog = "main" /\ pc = "fetch" /\ fetches < MaxFetches
    /\ \E r \in NoBatchResponses :
        /\ resp' = r
        /\ records_processed_total' =
              IF r.kind \in {"object_other", "object"}
              THEN records_processed_total + 1
              ELSE records_processed_total
        /\ IF r.kind = "list"
           THEN events' = <<>> /\ pc' = "fetch"
           ELSE MainBackToTop(<<>>)
    /\ fetches' = fetches + 1
    /\ \E d \in Delays : response_delay_seconds' = d
    /\ UNCHANGED <<prog, model, mainvars, mlvars, predict_out, model_accuracy,
                   retrain_count_total, distribution_drift_detected,
                   feature_added, feature_removed, datalake_unavailable>>

\* main.py:98-101 after the history Xh, yh was extended and evs were emitted:
\* skip below the floor; train_test_split raises on X, y of unequal length;
\* fit(X_train) raises on a ragged partition, or starts mutating the model
MainRetrain(Xh, yh, evs) ==
    IF ~MainShouldTrain(Xh)
    THEN MainBackToTop(evs) /\ model' = model
    ELSE IF Len(Xh) # Len(yh)
    THEN MainBackToTop(evs) /\ model' = model
    ELSE \/ /\ MainTrainCanFail(Xh)
            /\ MainBackToTop(evs) /\ model' = model
         \/ \E w \in MainTrainWidths(Xh) :
              /\ model' = [model EXCEPT !.w = w, !.busy = TRUE]
              /\ events' = Append(evs, Ev("fit_train", Len(Xh)))
              /\ pc' = "fit_train"

\* main.py:67-101 with a non-empty list of records
MainFetchBatch ==
    /\ prog = "main" /\ pc = "fetch" /\ fetches < MaxFetches
    /\ \E r \in Responses \ NoBatchResponses :
        /\ r.kind = "list"
        /\ resp' = r
        /\ records_processed_total' = records_processed_total + Len(r.recs)
        /\ LET a == MainAppend(r.recs, 1, X_history, y_history)
               current_feat_count == Len(r.recs[1].features)
               evs == MainFeatureEvents(current_feat_count, previous_features_count)
           IN  /\ X_history' = a.Xh
               /\ y_history' = a.yh
               /\ IF a.raised
                  THEN /\ MainBackToTop(<<>>)
                       /\ UNCHANGED <<previous_features_count, feature_added,
                                      feature_removed, model>>
                  ELSE /\ feature_added' =
                            IF Len(evs) > 0 /\ evs[1].op = "set_feature_added"
                            THEN 1 ELSE feature_added
                       /\ feature_removed' =
                            IF Len(evs) > 0 /\ evs[1].op = "set_feature_removed"
                            THEN 1 ELSE feature_removed
                       /\ previous_features_count' =
                            MainNextBaseline(current_feat_count, previous_features_count)
                       /\ MainRetrain(a.Xh, a.yh, evs)
    /\ fetches' = fetches + 1
    /\ \E d \in Delays : response_delay_seconds' = d
    /\ UNCHANGED <<prog, mlvars, predict_out, model_accuracy, retrain_count_total,
                   distribution_drift_detected, datalake_unavailable>>

\* main.py:101 model.fit(X_train, y_train) returns
MainFitTrainDone ==
    /\ prog = "main" /\ pc = "fit_train"
    /\ model' = Model("train", Len(X_history), model.w, FALSE)
    /\ pc' = "score"
    /\ UNCHANGED <<prog, resp, events, fetches, mainvars, mlvars, metrics, predict_out>>

\* main.py:102-109: score on X_test (raises when X_test is not of the model's
\* width), publish, and on a low score start the fit over the whole history
MainScore ==
    /\ prog = "main" /\ pc = "score"
    /\ IF Widths(X_history) # {model.w}
       THEN /\ MainBackToTop(events)
            /\ UNCHANGED <<model, model_accuracy, retrain_count_total>>
       ELSE \E acc \in Scores(y_history, MainTestSize(Len(y_history))) :
            /\ model_accuracy' = acc
            /\ IF acc < RETRAIN_THRESHOLD
               THEN /\ retrain_count_total' = retrain_count_total + 1
                    /\ model' = [model EXCEPT !.busy = TRUE]
                    /\ events' = events \o <<Ev("set_accuracy", acc),
                                             Alert("alert_accuracy"),
                                             Ev("fit_full", Len(X_history))>>
                    /\ pc' = "fit_full"
               ELSE /\ MainBackToTop(Append(events, Ev("set_accuracy", acc)))
                    /\ UNCHANGED <<model, retrain_count_total>>
    /\ UNCHANGED <<prog, resp, fetches, mainvars, mlvars, predict_out,
                   records_processed_total, distribution_drift_detected,
                   feature_added, feature_removed, datalake_unavailable,
                   response_delay_seconds>>

\* main.py:109 model.fit(X_history, y_history) returns
MainFitFullDone ==
    /\ prog = "main" /\ pc = "fit_full"
    /\ model' = Model("full", Len(X_history), model.w, FALSE)
    /\ MainBackToTop(events)
    /\ UNCHANGED <<prog, resp, fetches, mainvars, mlvars, metrics, predict_out>>

\* main.py:125-132 predict, on a request thread: float() raises on an
\* unparsable string; model.predict raises on a vector of the wrong width; a
\* model that fit() is mutating can answer either way.  `saw` is the model
\* object as the call read it.
PredictResults(input, m) ==
    IF ~input.parses THEN {"error"}
    ELSE IF m.busy THEN {"prediction", "error"}
    ELSE IF input.w = m.w /\ m.fit # "unfitted" THEN {"prediction"}
    ELSE {"error"}

Predict ==
    /\ prog = "main"
    /\ \E input \in PredictInputs : \E k \in PredictResults(input, model) :
          predict_out' = [kind |-> k, input |-> input, saw |-> model]
    /\ UNCHANGED <<prog, pc, resp, events, fetches, model, mainvars, mlvars, metrics>>

----------------------------------------------------------------------------
(* Exact arithmetic for statistics.mean / statistics.stdev *)

Abs(a) == IF a < 0 THEN -a ELSE a

RECURSIVE Gcd(_, _)
Gcd(a, b) == IF b = 0 THEN a ELSE Gcd(b, a % b)

\* the fraction n/d (d > 0) in lowest terms
Frac(n, d) == LET g == Gcd(Abs(n), d) IN <<n \div g, d \div g>>

RECURSIVE Sum(_)
Sum(s) == IF s = <<>> THEN 0 ELSE Head(s) + Sum(Tail(s))

Squares(s) == [i \in DOMAIN s |-> s[i] * s[i]]

\* statistics.mean(vals)
Mean(vals) == Frac(Sum(vals), Len(vals))

\* the square of statistics.stdev(vals) (sample variance), 0 for one value:
\* the model keeps the variance v, which stands for the deviation sqrt(v)
Variance(vals) ==
    IF Len(vals) > 1
    THEN Frac(Len(vals) * Sum(Squares(vals)) - Sum(vals) * Sum(vals),
              Len(vals) * (Len(vals) - 1))
    ELSE <<0, 1>>

\* ml_model.py:102  abs(mean_val - old_mean) > max(0.1, 0.2 * old_std)
\* with mean_val = a/b, old_mean = c/e, old_std = sqrt(p/q):
\*   |a/b - c/e| > 1/10       iff  10 |ae - cb| > be
\*   |a/b - c/e| > sqrt(p/q)/5  iff  25 (ae - cb)^2 q > p (be)^2
MeanShifted(mean_val, old_mean, old_var) ==
    LET num == Abs(mean_val[1] * old_mean[2] - old_mean[1] * mean_val[2])
        den == mean_val[2] * old_mean[2]
    IN  /\ 10 * num > den
        /\ 25 * num * num * old_var[2] > old_var[1] * den * den

----------------------------------------------------------------------------
(* ml_model.py *)

\* a Python dict as a function on its set of keys
Put(d, k, v) == [x \in DOMAIN d \cup {k} |-> IF x = k THEN v ELSE d[x]]
NoStats == [x \in {} |-> <<>>]

\* records[0].get('features', [])
FirstFeatures(records) == IF records[1].hasF THEN records[1].features ELSE <<>>

\* ml_model.py:77  set(records[0].get('features', [])): the set of the VALUES
\* of the first record's feature vector
FeatureSet(records) == {FirstFeatures(records)[i] : i \in DOMAIN FirstFeatures(records)}

\* ml_model.py:79-87: the events of detect_feature_changes
MlFeatureEvents(new_features_set, previous) ==
    (IF new_features_set \ previous # {}
     THEN <<Ev("inc_feature_added", Cardinality(new_features_set \ previous)),
            Alert("alert_feature_added")>>
     ELSE <<>>)
    \o
    (IF previous \ new_features_set # {}
     THEN <<Ev("inc_feature_removed", Cardinality(previous \ new_features_set)),
            Alert("alert_feature_removed")>>
     ELSE <<>>)

\* ml_model.py:96  [r['features'][idx] for r in records] raises KeyError or
\* IndexError; idx is the 0-based Python index
ColumnRaises(records, idx) ==
    \E i \in DOMAIN records : ~records[i].hasF \/ Len(records[i].features) <= idx
Column(records, idx) == [i \in DOMAIN records |-> records[i].features[idx + 1]]

RECURSIVE DriftFrom(_, _, _, _)
\* ml_model.py:95-104, from index idx on: the statistics written, whether a
\* shift was seen, and whether the loop raised
DriftFrom(records, idx, stats, drift) ==
    IF idx >= Len(FirstFeatures(records))
    THEN [stats |-> stats, drift |-> drift, raised |-> FALSE]
    ELSE IF ColumnRaises(records, idx)
    THEN [stats |-> stats, drift |-> drift, raised |-> TRUE]
    ELSE LET vals == Column(records, idx)
             shifted == /\ idx \in DOMAIN stats
                        /\ MeanShifted(Mean(vals), stats[idx][1], stats[idx][2])
         IN  DriftFrom(records, idx + 1,
                       Put(stats, idx, <<Mean(vals), Variance(vals)>>),
                       drift \/ shifted)

\* ml_model.py:91-110 detect_drift
DetectDrift(records, stats) == DriftFrom(records, 0, stats, FALSE)

RECURSIVE MlAppend(_, _, _, _)
\* ml_model.py:146-151: records without features or label are passed over
MlAppend(records, i, Xh, yh) ==
    IF i > Len(records) THEN [Xh |-> Xh, yh |-> yh]
    ELSE IF records[i].hasF /\ records[i].hasL
    THEN MlAppend(records, i + 1, Append(Xh, records[i].features),
                  Append(yh, records[i].label))
    ELSE MlAppend(records, i + 1, Xh, yh)

\* a guard that lets a history one short of the floor through
MlShouldTrain_OffByOne(Xh) == ~(Len(Xh) + 1 < MIN_SAMPLES_TO_TRAIN)

\* ml_model.py:115 the retrain guard
MlShouldTrain(Xh) == ~(Len(Xh) < MIN_SAMPLES_TO_TRAIN)

\* the save test taken on the counter before the cycle is counted
SaveDue_BeforeCount(cycle) == cycle % SAVE_INTERVAL = 0

\* ml_model.py:156
SaveDue(cycle) == (cycle + 1) % SAVE_INTERVAL = 0


\* ml_model.py:60-64: the records fetch_records extracts from a JSON list or
\* object (data.get('records', []))
MlRecords(r) == IF r.kind \in {"list", "object"} THEN r.recs ELSE <<>>

\* a counter that counts the response as well as its records
MlProcessed_CountsResponse(count, records) == count + Len(records) + 1

\* ml_model.py:66 records_processed_total.inc(len(records))
MlProcessed(count, records) == count + Len(records)

\* the responses on which fetch_records returns None: a 503, or an exception
\* inside its try block (requests.get raising, response.json() raising,
\* data.get raising AttributeError on a JSON number)
MlFailedResponses == {r \in Responses : r.kind \in {"neterror", "503", "badjson", "number"}}

\* ml_model.py:140-142,163 with fetch_records returning None (47-58, 69-73)
MlFetchFailedOn(offered, mayFetch) ==
    /\ prog = "ml" /\ pc = "fetch" /\ current_cycle < TRAIN_CYCLES
    /\ mayFetch
    /\ \E r \in offered \cap MlFailedResponses :
        /\ resp' = r
        /\ IF r.kind = "neterror"
           THEN response_delay_seconds' = response_delay_seconds
           ELSE \E d \in Delays : response_delay_seconds' = d
        /\ events' = <<Alert(IF r.kind = "503" THEN "alert_503" ELSE "alert_fetch_error"),
                       Sleep(ML_POLL)>>
    /\ datalake_unavailable' = datalake_unavailable + 1
    /\ fetches' = fetches + 1
    /\ UNCHANGED <<prog, pc, model, mainvars, mlvars, predict_out, model_accuracy,
                   records_processed_total, retrain_count_total,
                   distribution_drift_detected, feature_added, feature_removed>>

\* ml_model.py:140-142,163 with fetch_records returning [] (60-67)
MlFetchEmptyOn(offered, mayFetch) ==
    /\ prog = "ml" /\ pc = "fetch" /\ current_cycle < TRAIN_CYCLES
    /\ mayFetch
    /\ \E r \in offered \ MlFailedResponses :
        /\ MlRecords(r) = <<>>
        /\ resp' = r
        /\ records_processed_total' = MlProcessed(records_processed_total, MlRecords(r))
    /\ \E d \in Delays : response_delay_seconds' = d
    /\ events' = <<Sleep(ML_POLL)>>
    /\ fetches' = fetches + 1
    /\ UNCHANGED <<prog, pc, model, mainvars, mlvars, predict_out, model_accuracy,
                   retrain_count_total, distribution_drift_detected, feature_added,
                   feature_removed, datalake_unavailable>>

\* ml_model.py:112-133 train_model on history Xh, yh, after evs were emitted, and
\* the rest of the cycle (154-163).  np.array / fit raise on a history that is
\* not a rectangular array with a column; nothing catches it.
MlTrainAndFinish(Xh, yh, evs) ==
    IF ~MlShouldTrain(Xh)
    THEN /\ events' = evs \o (IF SaveDue(current_cycle)
                              THEN <<Ev("save", current_cycle + 1)>> ELSE <<>>)
                          \o <<Sleep(ML_POLL)>>
         /\ current_cycle' = current_cycle + 1
         /\ pc' = "fetch"
         /\ UNCHANGED <<model, model_accuracy, retrain_count_total, retrain_count>>
    ELSE IF ~Fittable(Xh)
    THEN /\ events' = evs
         /\ pc' = "crashed"
         /\ UNCHANGED <<model, model_accuracy, retrain_count_total, retrain_count,
                        current_cycle>>
    ELSE \E acc \in Scores(yh, MlTestSize(Len(yh))) :
         /\ model' = Model("train", Len(Xh), Len(Xh[1]), FALSE)
         /\ model_accuracy' = acc
         /\ retrain_count_total' = retrain_count
         /\ retrain_count' = IF acc < RETRAIN_THRESHOLD
                             THEN retrain_count + 1 ELSE retrain_count
         /\ events' = evs \o <<Ev("fit_train", Len(Xh)), Ev("set_accuracy", acc)>>
                          \o (IF acc < RETRAIN_THRESHOLD
                              THEN <<Alert("alert_accuracy")>> ELSE <<>>)
                          \o (IF SaveDue(current_cycle)
                              THEN <<Ev("save", current_cycle + 1)>> ELSE <<>>)
                          \o <<Sleep(ML_POLL)>>
         /\ current_cycle' = current_cycle + 1
         /\ pc' = "fetch"

\* ml_model.py:140-163 with a non-empty list of records: fetch_records (60-67),
\* detect_feature_changes, detect_drift, the append loop, train_model, the save
MlCycleOn(offered, mayFetch) ==
    /\ prog = "ml" /\ pc = "fetch" /\ current_cycle < TRAIN_CYCLES
    /\ mayFetch
    /\ \E r \in offered \ MlFailedResponses :
        /\ MlRecords(r) # <<>>
        /\ resp' = r
        /\ LET records == MlRecords(r)
               new_features_set == FeatureSet(records)
               fevs == MlFeatureEvents(new_features_set, previous_features)
               d == DetectDrift(records, feature_stats)
               a == MlAppend(records, 1, X, y)
           IN  /\ records_processed_total' = MlProcessed(records_processed_total, records)
               /\ feature_added' =
                     feature_added + Cardinality(new_features_set \ previous_features)
               /\ feature_removed' =
                     feature_removed + Cardinality(previous_features \ new_features_set)
               /\ previous_features' = new_features_set
               /\ feature_stats' = d.stats
               /\ IF d.raised
                  THEN /\ events' = fevs
                       /\ pc' = "crashed"
                       /\ UNCHANGED <<X, y, model, model_accuracy, retrain_count_total,
                                      retrain_count, current_cycle,
                                      distribution_drift_detected>>
                  ELSE /\ distribution_drift_detected' = IF d.drift THEN 1 ELSE 0
                       /\ X' = a.Xh
                       /\ y' = a.yh
                       /\ MlTrainAndFinish(a.Xh, a.yh,
                             fevs \o <<Ev("set_drift", IF d.drift THEN 1 ELSE 0)>>
                                  \o (IF d.drift THEN <<Alert("alert_drift")>> ELSE <<>>))
    /\ \E d \in Delays : response_delay_seconds' = d
    /\ fetches' = fetches + 1
    /\ UNCHANGED <<prog, mainvars, predict_out, datalake_unavailable>>

\* the three outcomes of a cycle when the data lake answers with any of Responses
\* and at most MaxFetches requests are followed
MlFetchFailed == MlFetchFailedOn(Responses, fetches < MaxFetches)
MlFetchEmpty == MlFetchEmptyOn(Responses, fetches < MaxFetches)
MlCycle == MlCycleOn(Responses, fetches < MaxFetches)

\* ml_model.py:140,165-167: the cycle budget is used up; final save, return
MlFinish ==
    /\ prog = "ml" /\ pc = "fetch" /\ ~(current_cycle < TRAIN_CYCLES)
    /\ events' = <<Ev("save_final", current_cycle)>>
    /\ pc' = "done"
    /\ UNCHANGED <<prog, resp, fetches, model, mainvars, mlvars, metrics, predict_out>>

----------------------------------------------------------------------------
(* Specification *)

NoResponse == Response("none", <<>>)
NoPredict == [kind |-> "none", input |-> [parses |-> FALSE, w |-> 0],
              saw |-> LoadedModel]

Init ==
    /\ prog \in {"main", "ml"}
    /\ pc = "fetch"
    /\ resp = NoResponse
    /\ events = <<>>
    /\ fetches = 0
    /\ model = IF prog = "main" THEN LoadedModel ELSE UnfittedModel
    /\ X_history = <<>> /\ y_history = <<>>
    /\ previous_features_count = 0
    /\ X = <<>> /\ y = <<>>
    /\ retrain_count = 0
    /\ current_cycle = 0
    /\ previous_features = {}
    /\ feature_stats = NoStats
    /\ model_accuracy = 0
    /\ records_processed_total = 0
    /\ retrain_count_total = 0
    /\ distribution_drift_detected = 0
    /\ feature_added = 0
    /\ feature_removed = 0
    /\ datalake_unavailable = 0
    /\ response_delay_seconds = 0
    /\ predict_out = NoPredict

MainLoop ==
    \/ MainFetchNetError
    \/ MainFetch503
    \/ MainFetchNoBatch
    \/ MainFetchBatch
    \/ MainFitTrainDone
    \/ MainScore
    \/ MainFitFullDone

MlLoop ==
    \/ MlFetchFailed
    \/ MlFetchEmpty
    \/ MlCycle

\* MlFinish needs current_cycle = TRAIN_CYCLES, which takes TRAIN_CYCLES
\* fetches; it is not enabled within MaxFetches and is left out of Next
\* (NextBudget has it).
Next == MainLoop \/ Predict \/ MlLoop

Spec == Init /\ [][Next]_vars

\* ml_model.py run through its whole cycle budget: the data lake is down, empty,
\* or serves one record (or a ragged batch, which ends the thread); all but
\* MaxIdleFetches of the requests complete a cycle.
BudgetResponses ==
    {Response("503", <<>>), Response("list", BatchEmpty), Response("list", BatchA),
     Response("list", BatchRagged)}

BudgetMayFetch == fetches - current_cycle < MaxIdleFetches

InitBudget == Init /\ prog = "ml"

NextBudget ==
    \/ MlFetchFailedOn(BudgetResponses, BudgetMayFetch)
    \/ MlFetchEmptyOn(BudgetResponses, BudgetMayFetch)
    \/ MlCycleOn(BudgetResponses, BudgetMayFetch)
    \/ MlFinish

SpecBudget == InitBudget /\ [][NextBudget]_vars

----------------------------------------------------------------------------
(* Vocabulary of the properties *)

\* the training history and the minimum-sample floor of the running program
History == IF prog = "main" THEN X_history ELSE X
Labels == IF prog = "main" THEN y_history ELSE y
Floor == IF prog = "main" THEN MAIN_MIN_HISTORY ELSE MIN_SAMPLES_TO_TRAIN
InitialModel == IF prog = "main" THEN LoadedModel ELSE UnfittedModel

\* this step is one loop iteration's fetch (with all that follows it atomically)
FetchStep == fetches' = fetches + 1

\* every record of the batch has a feature vector, all of one width
UniformBatch(b) ==
    /\ b # <<>>
    /\ \A i \in DOMAIN b : b[i].hasF /\ Len(b[i].features) = Len(b[1].features)
BatchWidth(b) == Len(b[1].features)

\* the latest response was a non-empty batch that reached the schema-change
\* step: in main.py the append loop runs first and must not have raised
SchemaStepRan ==
    IF prog = "main"
    THEN /\ resp.kind = "list" /\ resp.recs # <<>>
         /\ ~MainAppend(resp.recs, 1, <<>>, <<>>).raised
    ELSE resp.kind \in {"list", "object"} /\ resp.recs # <<>>

AddedFired == Has("alert_feature_added")
RemovedFired == Has("alert_feature_removed")
BaselineAbsent == IF prog = "main" THEN previous_features_count = 0
                  ELSE previous_features = {}
LowAccuracyCycle ==
    \E i \in DOMAIN events :
        events[i].op = "set_accuracy" /\ events[i].arg < RETRAIN_THRESHOLD

----------------------------------------------------------------------------
(* C1 *)

\* the snapshot a predict call read was the train-partition fit of a cycle
\* that went on to the full-history refit
SawIntermediateFit ==
    /\ predict_out.saw.fit = "train"
    /\ \E i \in DOMAIN events : events[i] = Ev("fit_full", predict_out.saw.hist)

\* C1: every predict call reads a complete snapshot: never a model that a
\* fit() is mutating, and never the train-partition-only fit of a cycle whose
\* low accuracy leads to the full-history refit.
C1_PredictReadsWholeSnapshot ==
    predict_out.kind # "none" =>
        /\ ~predict_out.saw.busy
        /\ ~SawIntermediateFit

----------------------------------------------------------------------------
(* C2 *)

\* C2: at the end of every cycle whose held-out accuracy was below the
\* retrain threshold, the live model is a fit over the whole history.
C2_LowAccuracyDeploysFullFit ==
    (pc = "fetch" /\ LowAccuracyCycle) =>
        model = Model("full", Len(History), model.w, FALSE)

----------------------------------------------------------------------------
(* C3 *)

\* C3: while the history is below the minimum-sample floor no fit has been
\* performed and the accuracy gauge has not been set; every fit that is
\* performed is over a history of at least the floor.
C3_NoFitBelowFloor ==
    /\ \A i \in DOMAIN events :
          events[i].op \in {"fit_train", "fit_full"} => events[i].arg >= Floor
    /\ model.fit \in {"train", "full"} => model.hist >= Floor
    /\ Len(History) < Floor =>
          /\ model = InitialModel
          /\ model_accuracy = 0
          /\ ~Has("fit_train") /\ ~Has("fit_full") /\ ~Has("set_accuracy")

\* a cycle of ml_model.py has ingested records and skipped the fit
C3_Witness ==
    /\ prog = "ml" /\ current_cycle = 2 /\ Len(X) = 3
    /\ model = UnfittedModel /\ model_accuracy = 0

----------------------------------------------------------------------------
(* C4 *)

\* C4: every cycle that ingests a batch appends each of its records to the
\* history, once and in delivery order (so that after K cycles the history
\* holds b1 + ... + bK records).
C4_HistoryGrowsByBatch ==
    [][(FetchStep /\ resp'.kind = "list") =>
          /\ Len(History') = Len(History) + Len(resp'.recs)
          /\ Len(Labels') = Len(Labels) + Len(resp'.recs)
          /\ \A i \in DOMAIN resp'.recs :
                /\ History'[Len(History) + i] = resp'.recs[i].features
                /\ Labels'[Len(Labels) + i] = resp'.recs[i].label]_vars

----------------------------------------------------------------------------
(* C5 *)

\* C5: a fetch that receives a 503 adds one to datalake_unavailable and leaves
\* records_processed_total alone, and nothing but a 503 moves
\* datalake_unavailable.
C5_UnavailableCounts503 ==
    [][/\ (FetchStep /\ resp'.kind = "503") =>
             /\ datalake_unavailable' = datalake_unavailable + 1
             /\ records_processed_total' = records_processed_total
       /\ datalake_unavailable' # datalake_unavailable => resp'.kind = "503"]_vars

----------------------------------------------------------------------------
(* C6 *)

\* C6: a cycle whose fetch returns the empty list changes nothing but the
\* response-latency gauge: no other metric, no detector state, not the
\* history, the model or the cycle counter.
C6_EmptyBatchChangesOnlyLatency ==
    [][(FetchStep /\ resp' = Response("list", <<>>)) =>
          UNCHANGED <<model_accuracy, records_processed_total, retrain_count_total,
                      distribution_drift_detected, feature_added, feature_removed,
                      datalake_unavailable, mainvars, mlvars, model>>]_vars

\* an empty batch has arrived at ml_model.py after a batch was processed
C6_Witness ==
    /\ prog = "ml" /\ resp = Response("list", <<>>)
    /\ current_cycle = 1 /\ records_processed_total = 2
    /\ feature_stats # NoStats /\ response_delay_seconds = 2

----------------------------------------------------------------------------
(* C7 *)

\* C7: no fault inside a cycle ends the ingestion loop; it stops only when
\* current_cycle has reached TRAIN_CYCLES.
C7_LoopStopsOnlyAtBudget ==
    pc \in {"crashed", "done"} => current_cycle = TRAIN_CYCLES

----------------------------------------------------------------------------
(* C8 *)

\* C8: after the schema-change step has processed a batch of uniform feature
\* width the stored baseline is that batch's identity, whatever it was before.
C8_BaselineIsBatchIdentity ==
    (SchemaStepRan /\ UniformBatch(resp.recs)) =>
        IF prog = "main"
        THEN previous_features_count = BatchWidth(resp.recs)
        ELSE previous_features = FeatureSet(resp.recs)

\* main.py has replaced a wider baseline by the width of a narrower batch
C8_Witness ==
    /\ prog = "main" /\ resp = Response("list", BatchA)
    /\ RemovedFired /\ previous_features_count = 1

----------------------------------------------------------------------------
(* C9 *)

\* C9: when two consecutive fetches both bring processed batches (with at
\* least one feature, so that the first leaves a baseline), the feature-added
\* signal fires on the second, exactly once, if and only if its feature width
\* strictly exceeds that of the first.
C9_AddedIffWidthGrows ==
    [][(FetchStep /\ SchemaStepRan /\ SchemaStepRan'
          /\ UniformBatch(resp.recs) /\ UniformBatch(resp'.recs)
          /\ BatchWidth(resp.recs) > 0) =>
          /\ AddedFired' <=> BatchWidth(resp'.recs) > BatchWidth(resp.recs)
          /\ AddedFired' => Count("alert_feature_added")' = 1]_vars

----------------------------------------------------------------------------
(* C10 *)

\* C10: the first processed batch (no baseline yet) raises no added/removed
\* alert, leaves both feature gauges alone and only records the baseline.
C10_FirstBatchOnlyRecordsBaseline ==
    [][(FetchStep /\ BaselineAbsent /\ SchemaStepRan' /\ UniformBatch(resp'.recs)) =>
          /\ ~AddedFired' /\ ~RemovedFired'
          /\ UNCHANGED <<feature_added, feature_removed>>]_vars

----------------------------------------------------------------------------
(* C11 *)

\* ml_model.py received a batch, of records with at least one feature, that
\* detect_drift went through
DriftStepRan ==
    /\ prog = "ml" /\ resp.kind \in {"list", "object"}
    /\ UniformBatch(resp.recs) /\ BatchWidth(resp.recs) > 0

\* some feature index of both batches has its mean in `cur` further from its
\* mean in `prev` than max(0.1, 0.2 * its standard deviation in `prev`)
ShiftBetween(prev, cur) ==
    \E idx \in 0..(BatchWidth(cur) - 1) :
        /\ idx < BatchWidth(prev)
        /\ MeanShifted(Mean(Column(cur, idx)), Mean(Column(prev, idx)),
                       Variance(Column(prev, idx)))

\* C11: for two consecutively processed batches, the drift gauge is 1 after
\* the second exactly when some feature's mean shifted, relative to the first
\* batch, by more than max(0.1, 0.2 * that batch's standard deviation), and
\* is 0 otherwise.
C11_DriftIffMeanShifted ==
    [][(FetchStep /\ DriftStepRan /\ DriftStepRan') =>
          distribution_drift_detected' =
              IF ShiftBetween(resp.recs, resp'.recs) THEN 1 ELSE 0]_vars

(* C12 *)
\* the latest iteration of ml_model.py's loop completed its cycle
CycleCompleted ==
    /\ prog = "ml" /\ pc = "fetch"
    /\ resp.kind \in {"list", "object"} /\ resp.recs # <<>>

\* C12: ml_model.py persists the model at the end of a completed cycle exactly
\* when the number of that cycle is a multiple of SAVE_INTERVAL; it persists
\* the final model once, when the counter has reached TRAIN_CYCLES, and takes
\* no step after that.
C12_SaveSchedule ==
    /\ Count("save") = (IF CycleCompleted /\ current_cycle % SAVE_INTERVAL = 0
                        THEN 1 ELSE 0)
    /\ \A i \in DOMAIN events : events[i].op = "save" => events[i].arg = current_cycle
    /\ pc = "done" <=> events = <<Ev("save_final", TRAIN_CYCLES)>>
    /\ pc = "done" => current_cycle = TRAIN_CYCLES /\ ~ENABLED NextBudget
    /\ Has("save_final") => pc = "done"

C12_Witness ==
    /\ pc = "done" /\ current_cycle = TRAIN_CYCLES
    /\ events = <<Ev("save_final", TRAIN_CYCLES)>>
    /\ Len(X) = TRAIN_CYCLES

----------------------------------------------------------------------------
(* C13 *)

\* the answer of the latest predict call is the one its input and the model it
\* read call for
PredictAnswerFits ==
    IF predict_out.input.parses /\ predict_out.input.w = predict_out.saw.w
    THEN predict_out.kind = "prediction"
    ELSE predict_out.kind = "error"

\* C13: every predict call returns a payload: a prediction for a well-formed
\* vector of the width the model expects, an error payload for an unparsable
\* string or a vector of another width; and the call changes nothing of the
\* loop's state, its history, its detector state or the metrics.
C13_PredictAnswersAndKeepsState ==
    /\ [](predict_out.kind # "none" =>
            predict_out.kind \in {"prediction", "error"} /\ PredictAnswerFits)
    /\ [][predict_out' # predict_out =>
            UNCHANGED <<pc, resp, events, fetches, model, mainvars, mlvars, metrics>>]_vars

----------------------------------------------------------------------------
(* C14 *)

\* the batch b went through the step: counted, handed to the schema detector
\* and appended to the history
BatchProcessed(b) ==
    /\ records_processed_total' = records_processed_total + Len(b)
    /\ Len(History') = Len(History) + Len(b)
    /\ Len(Labels') = Len(Labels) + Len(b)
    /\ \A i \in DOMAIN b :
          /\ History'[Len(History) + i] = b[i].features
          /\ Labels'[Len(Labels) + i] = b[i].label
    /\ b # <<>> => IF prog = "main"
                   THEN previous_features_count' = BatchWidth(b)
                   ELSE previous_features' = FeatureSet(b)

\* C14: a response whose body is an object holding the record array under
\* `records` is processed as the bare array is: the counter grows by the
\* number of records and the records reach the detectors and the history.
C14_RecordsObjectIsProcessed ==
    [][(FetchStep /\ resp'.kind = "object") => BatchProcessed(resp'.recs)]_vars

----------------------------------------------------------------------------
(* C15 *)

\* bodies that do not have the batch shape
Malformed == {"badjson", "number", "object_other"}

AlertOps == {"alert_503", "alert_fetch_error", "alert_feature_added",
             "alert_feature_removed", "alert_drift", "alert_accuracy"}

\* C15: a cycle whose response has a malformed body raises no alert and
\* changes neither the schema baseline, the drift statistics, the
\* processed-records counter nor the history.
C15_MalformedIsNoData ==
    [][(FetchStep /\ resp'.kind \in Malformed) =>
          /\ \A i \in DOMAIN events' : events'[i].op \notin AlertOps
          /\ UNCHANGED <<previous_features_count, previous_features, feature_stats,
                         records_processed_total, X_history, y_history, X, y>>]_vars

----------------------------------------------------------------------------
(* C16 *)

\* the loop is back at its top after a cycle that processed a batch
BatchCycleEnded == pc = "fetch" /\ SchemaStepRan

\* C16: a cycle that processed a non-empty batch and left the history at or
\* above the minimum-sample floor has fitted the model and published the
\* held-out accuracy (a history of exactly the floor is fitted, not skipped).
C16_FitAtOrAboveFloor ==
    (BatchCycleEnded /\ Len(History) >= Floor) =>
        Has("fit_train") /\ Has("set_accuracy")

----------------------------------------------------------------------------
(* C17 *)

\* seconds slept in the latest loop iteration
RECURSIVE SleptIn(_)
SleptIn(evs) ==
    IF evs = <<>> THEN 0
    ELSE (IF Head(evs).op = "sleep" THEN Head(evs).arg ELSE 0) + SleptIn(Tail(evs))

PollInterval == IF prog = "main" THEN MAIN_POLL ELSE ML_POLL

\* C17: when the loop is about to fetch again it has slept at least the poll
\* interval since the previous fetch, whatever that fetch brought, and
\* strictly longer than the poll interval when it brought a 503.
C17_SleepsBetweenFetches ==
    (pc = "fetch" /\ fetches > 0) =>
        /\ SleptIn(events) >= PollInterval
        /\ resp.kind = "503" => SleptIn(events) > PollInterval

----------------------------------------------------------------------------
(* C18 *)

\* this step publishes a held-out accuracy below the threshold
ScoredLow == LowAccuracyCycle' /\ (FetchStep \/ ~LowAccuracyCycle)

\* C18: retrain_count_total counts the cycles whose held-out accuracy was
\* below RETRAIN_THRESHOLD: the step publishing such an accuracy adds one to
\* it and raises one alert, and no other step changes it.
C18_RetrainMetricCountsLowCycles ==
    [][/\ retrain_count_total' =
             retrain_count_total + (IF ScoredLow THEN 1 ELSE 0)
       /\ ScoredLow => Count("alert_accuracy")' = 1]_vars

----------------------------------------------------------------------------
(* C19 *)

\* the statistics of batch b alone: for each of its feature indices the mean
\* and the variance (standing for the standard deviation) of that column
StatsOf(b) ==
    [idx \in 0..(BatchWidth(b) - 1) |-> <<Mean(Column(b, idx)), Variance(Column(b, idx))>>]

\* C19: after detect_drift has processed a batch, feature_stats holds the
\* statistics of that batch for exactly its feature indices, and nothing
\* retained from an older cycle.
C19_StatsAreLatestBatch ==
    DriftStepRan => feature_stats = StatsOf(resp.recs)

----------------------------------------------------------------------------
(* C20 *)

\* entry n of the feature history and entry n of the label history come from
\* one record of batch b
SameRecord(b, n) ==
    \E j \in DOMAIN b :
        /\ b[j].hasF /\ b[j].hasL
        /\ History'[n] = b[j].features /\ Labels'[n] = b[j].label

\* C20: whenever the loop is about to fetch, the feature history and the
\* label history have the same length, and the entries a cycle added to them
\* pair up record by record, also after a cycle that ended in an exception
\* while it was appending its batch.
C20_HistoriesStayAligned ==
    /\ [](pc = "fetch" => Len(History) = Len(Labels))
    /\ [][FetchStep =>
            \A n \in (Len(History) + 1)..Len(History') :
                n <= Len(Labels') /\ SameRecord(resp'.recs, n)]_vars

=============================================================================
